---- MODULE Spec2Model ----
(***************************************************************************)
(* Model of src/app.py: a Streamlit script that builds a LangGraph         *)
(* StateGraph over BlogState (title_generator -> content_generator ->      *)
(* content_reviewer -> quality_check, with a conditional edge back to      *)
(* content_generator or on to END) and runs it with graph.invoke.          *)
(*                                                                         *)
(* Texts are sequences of one-character strings, so that split, strip,     *)
(* upper and the substring test of the code are computed, not assumed.     *)
(***************************************************************************)
EXTENDS Integers, Sequences, FiniteSets, TLC

VARIABLES
    pc,          \* position of the script: "idle", "invoke", "done", "failed"
    graph,       \* st.session_state.graph: "None" or "compiled"
    blog_state,  \* st.session_state.blog_state: None or a BlogState
    state,       \* the channel values of the graph run (what each node reads)
    node,        \* the node the engine executes next
    step,        \* supersteps executed by this graph.invoke
    error,       \* exception that left graph.invoke, or "none"
    calls,       \* llm.invoke calls of this run, in order: the node that
                 \* called, the prompt it sent and what the model answered
    other        \* a second browser session of the app: the values of the
                 \* variables above for the session that is not stepping

vars == <<pc, graph, blog_state, state, node, step, error, calls, other>>

-----------------------------------------------------------------------------
(* Texts *)

Whitespace == {" ", "\n", "\t"}

LowerCase == <<"a","b","c","d","e","f","g","h","i","j","k","l","m",
               "n","o","p","q","r","s","t","u","v","w","x","y","z">>
UpperCase == <<"A","B","C","D","E","F","G","H","I","J","K","L","M",
               "N","O","P","Q","R","S","T","U","V","W","X","Y","Z">>

\* str.upper(), one character
UpperChar(c) ==
    IF \E i \in 1..Len(LowerCase) : LowerCase[i] = c
    THEN UpperCase[CHOOSE i \in 1..Len(LowerCase) : LowerCase[i] = c]
    ELSE c

\* str.upper()
Upper(s) == [i \in 1..Len(s) |-> UpperChar(s[i])]

RECURSIVE LStrip(_, _)
LStrip(s, cs) ==
    IF s # <<>> /\ Head(s) \in cs THEN LStrip(Tail(s), cs) ELSE s

RECURSIVE RStrip(_, _)
RStrip(s, cs) ==
    IF s # <<>> /\ s[Len(s)] \in cs THEN RStrip(SubSeq(s, 1, Len(s) - 1), cs) ELSE s

\* str.strip(chars); str.strip() is Strip(s, Whitespace)
Strip(s, cs) == RStrip(LStrip(s, cs), cs)

\* s.split("\n")[0]
RECURSIVE FirstLine(_)
FirstLine(s) ==
    IF s = <<>> \/ Head(s) = "\n" THEN <<>> ELSE <<Head(s)>> \o FirstLine(Tail(s))

\* sub in s
Contains(s, sub) ==
    \E i \in 1..(Len(s) - Len(sub) + 1) : SubSeq(s, i, i + Len(sub) - 1) = sub

Last(s) == s[Len(s)]

-----------------------------------------------------------------------------
(* BlogState and messages *)

\* AIMessage(content=c): no id until a reducer has seen it (id 0 is None)
AIMessage(c) == [type |-> "ai", content |-> c, id |-> 0]

\* HumanMessage(content=c)
HumanMessage(c) == [type |-> "human", content |-> c, id |-> 0]

\* BlogState(topic=topic, title="", blog_content=[], reviewed_content=[],
\*           is_blog_ready="")
BlogState(topic) ==
    [topic |-> topic, title |-> <<>>, blog_content |-> <<>>,
     reviewed_content |-> <<>>, is_blog_ready |-> ""]

\* the value of st.session_state.blog_state when it is None
None == <<>>

\* the channels of a graph that has not been given an input yet
NoChannels == BlogState(<<>>)

\* add_messages gives every message without an id a fresh one
AssignIds(ms, used) ==
    [i \in 1..Len(ms) |-> IF ms[i].id = 0 THEN [ms[i] EXCEPT !.id = used + i] ELSE ms[i]]

\* add_messages, after the ids are assigned: a message of right whose id is
\* already in the merged list replaces that entry, any other is appended
RECURSIVE MergeById(_, _)
MergeById(merged, right) ==
    IF right = <<>> THEN merged
    ELSE LET m == Head(right)
             hit == {i \in 1..Len(merged) : merged[i].id = m.id}
         IN  MergeById(IF hit # {}
                         THEN [merged EXCEPT ![CHOOSE i \in hit : TRUE] = m]
                         ELSE Append(merged, m),
                       Tail(right))

\* Annotated[List, add_messages]: the reducer of blog_content and
\* reviewed_content. The node appends in place to the list the channel holds,
\* so the left operand is the list the node returns.
add_messages(left, right, used) ==
    MergeById(AssignIds(left, used), AssignIds(right, used))

\* the ids handed out so far in this run
UsedIds(st) == Len(st.blog_content) + Len(st.reviewed_content)

\* the engine writes the dict a node returns back to the channels: topic,
\* title and is_blog_ready keep the last value written, the two lists go
\* through add_messages
ApplyWrites(old, ret) ==
    [topic |-> ret.topic,
     title |-> ret.title,
     blog_content |-> add_messages(ret.blog_content, ret.blog_content, UsedIds(old)),
     reviewed_content |-> add_messages(ret.reviewed_content, ret.reviewed_content, UsedIds(old)),
     is_blog_ready |-> ret.is_blog_ready]

-----------------------------------------------------------------------------
(* The graph *)

\* default recursion_limit of graph.invoke(state), called without a config
RecursionLimit == 25

\* a graph built without the edge into content_reviewer
Edges_review_skipped ==
    [START |-> "title_generator",
     title_generator |-> "content_generator",
     content_generator |-> "quality_check",
     content_reviewer |-> "quality_check"]

\* a graph built with title_generator wired to content_reviewer
Edges_content_skipped ==
    [START |-> "title_generator",
     title_generator |-> "content_reviewer",
     content_generator |-> "content_reviewer",
     content_reviewer |-> "quality_check"]

\* builder.add_edge(...)
Edges ==
    [START |-> "title_generator",
     title_generator |-> "content_generator",
     content_generator |-> "content_reviewer",
     content_reviewer |-> "quality_check"]

\* the two targets of the conditional edge exchanged
ConditionalEdges_swapped == [Pass |-> "content_generator", Fail |-> "END"]

\* a retry edge that leads back to the first node of the graph
ConditionalEdges_fail_to_title == [Pass |-> "END", Fail |-> "title_generator"]

\* a retry edge that leads to the review of the old draft
ConditionalEdges_fail_to_review == [Pass |-> "END", Fail |-> "content_reviewer"]

\* {"Pass": END, "Fail": "content_generator"}
ConditionalEdges == [Pass |-> "END", Fail |-> "content_generator"]

\* a router that tests for "Fail" instead of "Pass"
route_unless_fail(st) == IF st.is_blog_ready # "Fail" THEN "Pass" ELSE "Fail"

\* a router that compares with the upper-case token
route_case_mismatch(st) == IF st.is_blog_ready = "PASS" THEN "Pass" ELSE "Fail"

route_based_on_verdict(st) == IF st.is_blog_ready = "Pass" THEN "Pass" ELSE "Fail"

\* the node that runs after n has returned st
NextNode(n, st) ==
    IF n = "quality_check"
    THEN ConditionalEdges[route_based_on_verdict(st)]
    ELSE Edges[n]

-----------------------------------------------------------------------------
(* The node functions: the prompt each one sends and the dict it returns    *)
(* for the text the model answered                                          *)

TitlePrompt(st) == <<"title", st.topic>>

generate_title_result(st, response) ==
    [st EXCEPT !.title = Strip(FirstLine(response), {"\""})]

\* a content_generator that gives the last review back to the model
ContentPrompt_with_feedback(st) ==
    IF st.reviewed_content = <<>> THEN <<"content", st.title>>
    ELSE <<"content", st.title, Last(st.reviewed_content).content>>

ContentPrompt(st) == <<"content", st.title>>

\* a content_generator that puts the new draft in the place of the last one
generate_content_replaces_last(st, response) ==
    [st EXCEPT !.blog_content =
        IF @ = <<>> THEN <<AIMessage(response)>>
        ELSE [@ EXCEPT ![Len(@)] = AIMessage(response)]]

\* a content_generator that drops the old reviews when it writes a draft
generate_content_clears_reviews(st, response) ==
    [st EXCEPT !.blog_content = Append(@, AIMessage(response)),
               !.reviewed_content = <<>>]

generate_content_result(st, response) ==
    [st EXCEPT !.blog_content = Append(@, AIMessage(response))]

ReviewPrompt(st) == <<"review", Last(st.blog_content).content>>

\* a content_reviewer that appends its critique as an AIMessage
review_content_as_ai(st, feedback) ==
    [st EXCEPT !.reviewed_content = Append(@, AIMessage(feedback))]

review_content_result(st, feedback) ==
    [st EXCEPT !.reviewed_content = Append(@, HumanMessage(feedback))]

\* a quality_check that judges the first draft instead of the last
EvaluatePrompt_first_draft(st) ==
    <<"evaluate", st.blog_content[1].content, Last(st.reviewed_content).content>>

EvaluatePrompt(st) ==
    <<"evaluate", Last(st.blog_content).content, Last(st.reviewed_content).content>>

VerdictPrefix == <<"V","e","r","d","i","c","t",":"," ">>

\* the test without upper()
Verdict_case_sensitive(response) ==
    IF Contains(Strip(response, Whitespace), <<"P","A","S","S">>)
    THEN "Pass" ELSE "Fail"

\* "Pass" if "PASS" in response.content.strip().upper() else "Fail"
Verdict(response) ==
    IF Contains(Upper(Strip(response, Whitespace)), <<"P","A","S","S">>)
    THEN "Pass" ELSE "Fail"

\* a quality_check that sets the verdict and appends nothing
evaluate_content_no_summary(st, response) ==
    [st EXCEPT !.is_blog_ready = Verdict(response)]

\* a quality_check that appends the summary and leaves is_blog_ready alone
evaluate_content_no_verdict(st, response) ==
    [st EXCEPT !.reviewed_content = Append(@, AIMessage(VerdictPrefix \o response))]

evaluate_content_result(st, response) ==
    [st EXCEPT !.is_blog_ready = Verdict(response),
               !.reviewed_content = Append(@, AIMessage(VerdictPrefix \o response))]

\* builder.add_node(name, function): what node n returns for the answer
NodeResult(n, st, response) ==
    CASE n = "title_generator" -> generate_title_result(st, response)
      [] n = "content_generator" -> generate_content_result(st, response)
      [] n = "content_reviewer" -> review_content_result(st, response)
      [] n = "quality_check" -> evaluate_content_result(st, response)

-----------------------------------------------------------------------------
(* Inputs: the topic typed by the user and what llm.invoke answers          *)

Topics == { <<"A","I">>, <<"G","o">> }

TitleResponses ==
    { <<"T","1">>,
      <<"\"","T","1","\"","\n","T","2">>,
      <<>>,
      <<"\n","T","1">> }

DraftResponses == { <<"d","1">>, <<"d","2">> }

ReviewResponses == { <<"o","k">> }

EvalResponses == { <<"P","A","S","S">>, <<"F","A","I","L">> }

\* the characters and the longest text of the answers tried on the verdict
\* parsing alone
Alphabet == {"p", "P", "a", "A", "s", "S", " "}

MaxResponseLen == 5

Texts(n) == UNION {[1..k -> Alphabet] : k \in 0..n}

AnyResponses == Texts(MaxResponseLen) \cup EvalResponses

\* llm.invoke(prompt) either raises or returns one of the texts
Answer(t) == [raised |-> FALSE, content |-> t]

Raised == [raised |-> TRUE, content |-> <<>>]

Outcomes(texts) == {Raised} \cup {Answer(t) : t \in texts}

-----------------------------------------------------------------------------
(* Actions *)

\* a session whose script has run lines 25-29 and waits for the button
IdleSession ==
    [pc |-> "idle", graph |-> "None", blog_state |-> None, state |-> NoChannels,
     node |-> "START", step |-> 0, error |-> "none", calls |-> <<>>]

\* the session that is stepping
ThisSession ==
    [pc |-> pc, graph |-> graph, blog_state |-> blog_state, state |-> state,
     node |-> node, step |-> step, error |-> error, calls |-> calls]

Init ==
    /\ pc = "idle"
    /\ graph = "None"
    /\ blog_state = None
    /\ state = NoChannels
    /\ node = "START"
    /\ step = 0
    /\ error = "none"
    /\ calls = <<>>
    /\ other = IdleSession

\* a script that keeps one BlogState for the whole process: a run starts
\* from the channels the other session has filled
StartRun_shared_state ==
    /\ pc \in {"idle", "done", "failed"}
    /\ \E topic \in Topics :
         /\ blog_state' = <<BlogState(topic)>>
         /\ state' = IF other.graph = "compiled"
                     THEN [other.state EXCEPT !.topic = topic]
                     ELSE ApplyWrites(NoChannels, BlogState(topic))
    /\ graph' = "compiled"
    /\ node' = Edges["START"]
    /\ step' = 0
    /\ error' = "none"
    /\ calls' = <<>>
    /\ pc' = "invoke"
    /\ UNCHANGED other

\* lines 124-135: the button is pressed with a topic; a new graph and a new
\* BlogState are stored in the session and graph.invoke starts. The graph
\* reads the values of the dict it is given into its channels: the nodes
\* work on the channel values, the dict in the session stays as it was built
StartRun ==
    /\ pc \in {"idle", "done", "failed"}
    /\ \E topic \in Topics :
         /\ blog_state' = <<BlogState(topic)>>
         /\ state' = ApplyWrites(NoChannels, BlogState(topic))
    /\ graph' = "compiled"
    /\ node' = Edges["START"]
    /\ step' = 0
    /\ error' = "none"
    /\ calls' = <<>>
    /\ pc' = "invoke"
    /\ UNCHANGED other

\* an exception that is caught and logged: the run goes on at the same node
Raise_swallowed(e) ==
    /\ error' = e
    /\ UNCHANGED <<pc, graph, blog_state, state, node, step>>

\* an exception leaves the node and graph.invoke: line 136 is not reached
Raise(e) ==
    /\ pc' = "failed"
    /\ error' = e
    /\ UNCHANGED <<graph, blog_state, state, node, step>>

\* one superstep: node n sends its prompt; when the model answers, the dict
\* the node returns is written to the channels and the outgoing edge is taken
RunNode(n, needs, prompt, texts) ==
    /\ pc = "invoke"
    /\ node = n
    /\ step < RecursionLimit
    /\ UNCHANGED other
    /\ IF \E l \in needs : state[l] = <<>>
       THEN /\ Raise("IndexError")
            /\ UNCHANGED calls
       ELSE \E r \in Outcomes(texts) :
              /\ calls' = Append(calls, [node |-> n, prompt |-> prompt, answer |-> r])
              /\ IF r.raised
                 THEN Raise("ServiceError")
                 ELSE /\ state' = ApplyWrites(state, NodeResult(n, state, r.content))
                      /\ node' = NextNode(n, state')
                      /\ step' = step + 1
                      /\ UNCHANGED <<pc, graph, blog_state, error>>

generate_title ==
    RunNode("title_generator", {}, TitlePrompt(state), TitleResponses)

generate_content ==
    RunNode("content_generator", {}, ContentPrompt(state), DraftResponses)

review_content ==
    RunNode("content_reviewer", {"blog_content"}, ReviewPrompt(state),
            ReviewResponses)

evaluate_content_on(texts) ==
    RunNode("quality_check", {"blog_content", "reviewed_content"},
            EvaluatePrompt(state), texts)

evaluate_content == evaluate_content_on(EvalResponses)

\* the graph has not reached END within the recursion limit
RecursionError ==
    /\ pc = "invoke"
    /\ node # "END"
    /\ step >= RecursionLimit
    /\ Raise("GraphRecursionError")
    /\ UNCHANGED <<calls, other>>

\* lines 135-136: END is reached, graph.invoke returns the channel values
\* and the script stores them in the session
InvokeReturns ==
    /\ pc = "invoke"
    /\ node = "END"
    /\ blog_state' = <<state>>
    /\ pc' = "done"
    /\ UNCHANGED <<graph, state, node, step, error, calls, other>>

\* lines 153-162: the sidebar's Reset Session button
ResetSession ==
    /\ pc \in {"done", "failed"}
    /\ blog_state # None
    /\ pc' = "idle"
    /\ graph' = "None"
    /\ blog_state' = None
    /\ state' = NoChannels
    /\ node' = "START"
    /\ step' = 0
    /\ error' = "none"
    /\ calls' = <<>>
    /\ UNCHANGED other

Next ==
    \/ StartRun
    \/ generate_title
    \/ generate_content
    \/ review_content
    \/ evaluate_content
    \/ RecursionError
    \/ InvokeReturns
    \/ ResetSession

Spec == Init /\ [][Next]_vars

\* the script runs on by itself: a node that can run runs, llm.invoke comes
\* back, and graph.invoke returns or raises when the graph is done
Fairness ==
    /\ WF_vars(generate_title)
    /\ WF_vars(generate_content)
    /\ WF_vars(review_content)
    /\ WF_vars(evaluate_content)
    /\ WF_vars(RecursionError)
    /\ WF_vars(InvokeReturns)

FairSpec == Spec /\ Fairness

\* lines 141-142: the text shown as "Final Blog Post"
ShownPost == Last(blog_state[1].blog_content).content

\* lines 145-146: the text shown as "Quality Assurance Report"
ShownReport == Last(blog_state[1].reviewed_content).content

-----------------------------------------------------------------------------
(* The verdict parsing on its own: a run that stands before its first       *)
(* quality_check, and a model that may answer any text over Alphabet        *)

\* the channels after title_generator, content_generator and
\* content_reviewer have run once
BeforeEvaluate(topic, t, d, r) ==
    LET s0 == ApplyWrites(NoChannels, BlogState(topic))
        s1 == ApplyWrites(s0, generate_title_result(s0, t))
        s2 == ApplyWrites(s1, generate_content_result(s1, d))
    IN  <<s0, s1, s2, ApplyWrites(s2, review_content_result(s2, r))>>

InitVerdict ==
    \E topic \in Topics, d \in DraftResponses, r \in ReviewResponses :
      LET t == <<"T","1">>
          s == BeforeEvaluate(topic, t, d, r) IN
      /\ pc = "invoke"
      /\ graph = "compiled"
      /\ blog_state = <<BlogState(topic)>>
      /\ state = s[4]
      /\ node = "quality_check"
      /\ step = 3
      /\ error = "none"
      /\ other = IdleSession
      /\ calls = << [node |-> "title_generator", prompt |-> TitlePrompt(s[1]),
                     answer |-> Answer(t)],
                    [node |-> "content_generator", prompt |-> ContentPrompt(s[2]),
                     answer |-> Answer(d)],
                    [node |-> "content_reviewer", prompt |-> ReviewPrompt(s[3]),
                     answer |-> Answer(r)] >>

evaluate_any_text == evaluate_content_on(AnyResponses)

NextVerdict == evaluate_any_text \/ InvokeReturns

SpecVerdict == InitVerdict /\ [][NextVerdict]_vars

-----------------------------------------------------------------------------
(* The router on its own: route_based_on_verdict applied to any BlogState,  *)
(* the three values of is_blog_ready included                               *)

RouteInputs ==
    LET draft == [AIMessage(<<"d","1">>) EXCEPT !.id = 1]
        critique == [HumanMessage(<<"o","k">>) EXCEPT !.id = 2]
        summary == [AIMessage(VerdictPrefix \o <<"F","A","I","L">>) EXCEPT !.id = 3]
    IN  [topic : Topics,
         title : {<<>>, <<"T","1">>},
         blog_content : {<<>>, <<draft>>},
         reviewed_content : {<<>>, <<critique>>, <<critique, summary>>},
         is_blog_ready : {"", "Pass", "Fail"}]

InitRoute ==
    /\ pc = "invoke"
    /\ graph = "compiled"
    /\ state \in RouteInputs
    /\ blog_state = <<BlogState(state.topic)>>
    /\ node = "quality_check"
    /\ step = 0
    /\ error = "none"
    /\ calls = <<>>
    /\ other = IdleSession

\* the conditional edge of quality_check: the router's answer picks the node
route ==
    /\ pc = "invoke"
    /\ node = "quality_check"
    /\ node' = ConditionalEdges[route_based_on_verdict(state)]
    /\ UNCHANGED <<pc, graph, blog_state, state, step, error, calls, other>>

NextRoute == route \/ InvokeReturns

SpecRoute == InitRoute /\ [][NextRoute]_vars

-----------------------------------------------------------------------------
(* Two sessions of the app, their runs interleaved step by step. Each       *)
(* session has its own st.session_state and runs the script on its own;     *)
(* the model answers each session with one draft text and one title         *)

\* the other session gets to step
SwitchSession ==
    /\ other' = ThisSession
    /\ pc' = other.pc
    /\ graph' = other.graph
    /\ blog_state' = other.blog_state
    /\ state' = other.state
    /\ node' = other.node
    /\ step' = other.step
    /\ error' = other.error
    /\ calls' = other.calls

NextSessions ==
    \/ StartRun
    \/ RunNode("title_generator", {}, TitlePrompt(state), {<<"T","1">>})
    \/ RunNode("content_generator", {}, ContentPrompt(state), {<<"d","1">>})
    \/ review_content
    \/ evaluate_content
    \/ RecursionError
    \/ InvokeReturns
    \/ ResetSession
    \/ SwitchSession

SpecSessions == Init /\ [][NextSessions]_vars

-----------------------------------------------------------------------------
(* Properties *)

IsPrefix(s, t) == Len(s) <= Len(t) /\ SubSeq(t, 1, Len(s)) = s

\* the calls of the run the model answered
Answered == {i \in 1..Len(calls) : ~calls[i].answer.raised}

\* the Content-Review-Evaluate cycles the run has completed
CyclesDone == Cardinality({i \in Answered : calls[i].node = "quality_check"})

\* the nodes of the calls, in order
RECURSIVE NodesOf(_)
NodesOf(cs) == IF cs = <<>> THEN <<>> ELSE <<Head(cs).node>> \o NodesOf(Tail(cs))

\* the texts the model answered to quality_check, in order
RECURSIVE EvalAnswers(_)
EvalAnswers(cs) ==
    IF cs = <<>> THEN <<>>
    ELSE (IF Head(cs).node = "quality_check" /\ ~Head(cs).answer.raised
          THEN <<Head(cs).answer.content>> ELSE <<>>) \o EvalAnswers(Tail(cs))

\* C1: a run is at END, or has returned from graph.invoke, only with
\* is_blog_ready = "Pass", and END is entered only by a quality_check step
\* that has just set is_blog_ready to "Pass".
C1_EndOnlyOnPass ==
    /\ [](node = "END" \/ pc = "done" =>
            /\ state.is_blog_ready = "Pass"
            /\ pc = "done" => blog_state[1].is_blog_ready = "Pass")
    /\ [][node' = "END" /\ node # "END" =>
            /\ node = "quality_check"
            /\ Len(calls') = Len(calls) + 1
            /\ Last(calls').node = "quality_check"
            /\ state'.is_blog_ready = "Pass"]_vars

C1_Witness ==
    /\ pc = "done"
    /\ node = "END"
    /\ blog_state[1].is_blog_ready = "Pass"
    /\ CyclesDone = 2

\* C2: when N cycles are complete (the run has not started a step of cycle
\* N + 1), blog_content has N entries and reviewed_content has 2N.
C2_HistoryLengths ==
    (Len(calls) <= 1 \/ (Answered = 1..Len(calls) /\ Last(calls).node = "quality_check"))
        => /\ Len(state.blog_content) = CyclesDone
           /\ Len(state.reviewed_content) = 2 * CyclesDone

C2_Witness ==
    /\ CyclesDone = 3
    /\ pc = "invoke"
    /\ node = "content_generator"
    /\ Len(state.blog_content) = 3
    /\ Len(state.reviewed_content) = 6

\* C3: within a run the nodes run in graph order: title_generator is the
\* first call and only the first, content_generator is followed by
\* content_reviewer, that by quality_check, and quality_check by END when
\* it set "Pass" and by content_generator when it set "Fail"; a run whose
\* quality_check answers are FAIL then PASS has made exactly the calls
\* title, content, review, evaluate, content, review, evaluate and returns
\* two drafts and "Pass".
C3_GraphOrder ==
    /\ [](\A i \in 1..Len(calls) : calls[i].node = "title_generator" <=> i = 1)
    /\ [][pc = "invoke" /\ pc' = "invoke" /\ node' # node =>
            /\ Len(calls') = Len(calls) + 1
            /\ Last(calls').node = node
            /\ \/ node = "title_generator" /\ node' = "content_generator"
               \/ node = "content_generator" /\ node' = "content_reviewer"
               \/ node = "content_reviewer" /\ node' = "quality_check"
               \/ /\ node = "quality_check" /\ node' = "END"
                  /\ state'.is_blog_ready = "Pass"
               \/ /\ node = "quality_check" /\ node' = "content_generator"
                  /\ state'.is_blog_ready = "Fail"]_vars
    /\ [][pc = "invoke" /\ pc' = "invoke" /\ calls' # calls => node' # node]_vars
    /\ [](pc = "done" /\ EvalAnswers(calls) = << <<"F","A","I","L">>, <<"P","A","S","S">> >> =>
            /\ NodesOf(calls) = << "title_generator",
                                   "content_generator", "content_reviewer", "quality_check",
                                   "content_generator", "content_reviewer", "quality_check" >>
            /\ node = "END"
            /\ Len(blog_state[1].blog_content) = 2
            /\ blog_state[1].is_blog_ready = "Pass")

C3_Witness ==
    /\ pc = "done"
    /\ EvalAnswers(calls) = << <<"F","A","I","L">>, <<"P","A","S","S">> >>
    /\ Len(blog_state[1].blog_content) = 2

\* the letters "pass", each in either case, at some place of the text
ContainsPassAnyCase(r) ==
    \E i \in 1..(Len(r) - 3) :
        /\ r[i] \in {"p", "P"}
        /\ r[i + 1] \in {"a", "A"}
        /\ r[i + 2] \in {"s", "S"}
        /\ r[i + 3] \in {"s", "S"}

\* C4: a quality_check step the model answers sets is_blog_ready to "Pass"
\* exactly when the answer has the letters "pass" in any case anywhere, and
\* to "Fail" for any other answer, the empty one included; the step raises
\* nothing, and on "Fail" the next node is content_generator.
C4_VerdictParsing ==
    [][node = "quality_check" /\ Len(calls') = Len(calls) + 1 /\ ~Last(calls').answer.raised =>
         LET r == Last(calls').answer.content IN
         /\ state'.is_blog_ready = (IF ContainsPassAnyCase(r) THEN "Pass" ELSE "Fail")
         /\ error' = "none"
         /\ pc' = "invoke"
         /\ node' = (IF ContainsPassAnyCase(r) THEN "END" ELSE "content_generator")]_vars

C4_Witness ==
    /\ calls # <<>>
    /\ Last(calls).node = "quality_check"
    /\ Last(calls).answer = Answer(<<>>)
    /\ state.is_blog_ready = "Fail"
    /\ node = "content_generator"
    /\ pc = "invoke"
    /\ error = "none"

\* C5: the router's answer is a function of is_blog_ready alone: "Pass"
\* (the edge to END) for "Pass", "Fail" (the edge to content_generator) for
\* "Fail" and for the unset value; routing changes no field of the state
\* and raises nothing.
C5_RouterFunctionOfVerdict ==
    /\ [](node # "quality_check" =>
            node = (IF state.is_blog_ready = "Pass" THEN "END" ELSE "content_generator"))
    /\ [][node = "quality_check" /\ node' # node =>
            state' = state /\ error' = "none" /\ pc' = "invoke"]_vars

C5_Witness ==
    /\ node = "content_generator"
    /\ state.is_blog_ready = ""
    /\ state.reviewed_content # <<>>

\* C6: after a failed llm.invoke the state the script holds
\* (st.session_state.blog_state) is the state the completed steps built.
C6_FailureKeepsCompletedSteps ==
    (pc = "failed" /\ error = "ServiceError") => blog_state = <<state>>

\* C7: a call that raises is the last call of its run: the run has failed
\* at the node that made it, that node is not END, and from then on the
\* call log, the channels and the node stay as they are until a new run
\* starts.
C7_FailureAborts ==
    /\ [](\A i \in 1..Len(calls) : calls[i].answer.raised =>
            /\ i = Len(calls)
            /\ pc = "failed"
            /\ error = "ServiceError"
            /\ node = calls[i].node)
    /\ [][pc = "failed" =>
            \/ pc' = "failed" /\ UNCHANGED <<calls, state, node, step, blog_state>>
            \/ pc' = "idle" /\ calls' = <<>>
            \/ pc' = "invoke" /\ calls' = <<>> /\ step' = 0]_vars

C7_Witness ==
    /\ pc = "failed"
    /\ error = "ServiceError"
    /\ Len(calls) = 6
    /\ Last(calls).node = "content_reviewer"
    /\ Last(calls).answer.raised

\* C8: when the model answers the title prompt with an empty text, or one
\* whose first line is empty, the run fails in title_generator and
\* content_generator is never entered.
C8_EmptyTitleFails ==
    (/\ calls # <<>>
     /\ ~calls[1].answer.raised
     /\ (calls[1].answer.content = <<>> \/ Head(calls[1].answer.content) = "\n"))
        => pc = "failed" /\ Len(calls) = 1 /\ node = "title_generator"

\* C9: during a run every step leaves the old blog_content and the old
\* reviewed_content as prefixes of the new ones.
C9_AppendOnly ==
    [][pc = "invoke" =>
         /\ IsPrefix(state.blog_content, state'.blog_content)
         /\ IsPrefix(state.reviewed_content, state'.reviewed_content)]_vars

C9_Witness ==
    /\ pc = "invoke"
    /\ Len(state.blog_content) = 2
    /\ Len(state.reviewed_content) = 4
    /\ state.blog_content[1].content # state.blog_content[2].content

\* C10: blog_content is not empty when content_reviewer or quality_check is
\* about to run, reviewed_content is not empty when quality_check is about
\* to run, and no run fails with an IndexError.
C10_LastElementExists ==
    /\ error # "IndexError"
    /\ (pc = "invoke" /\ node \in {"content_reviewer", "quality_check"}
            => state.blog_content # <<>>)
    /\ (pc = "invoke" /\ node = "quality_check"
            => state.reviewed_content # <<>>)

C10_Witness ==
    /\ pc = "invoke"
    /\ node = "quality_check"
    /\ Len(state.blog_content) = 2
    /\ Len(state.reviewed_content) = 3

\* C11: title is empty until title_generator has run, no later step of the
\* run changes it, and every content_generator call of the run is made with
\* the title the run holds.
C11_TitleSetOnce ==
    /\ [](pc = "invoke" /\ node = "title_generator" => state.title = <<>> /\ calls = <<>>)
    /\ [][pc = "invoke" /\ node # "title_generator" => state'.title = state.title]_vars
    /\ [](\A i \in 1..Len(calls) :
            calls[i].node = "content_generator" => calls[i].prompt[2] = state.title)

C11_Witness ==
    /\ pc = "invoke"
    /\ node = "quality_check"
    /\ CyclesDone = 1
    /\ state.title = <<"T","1">>
    /\ \E i \in 1..Len(calls) : i > 2 /\ calls[i].node = "content_generator"

\* C12: is_blog_ready is unset exactly as long as no quality_check of the
\* run has completed, and the state the router is applied to (the one a
\* completed quality_check leaves) has is_blog_ready "Pass" or "Fail".
C12_VerdictSetBeforeRouting ==
    /\ [](state.is_blog_ready = "" <=> CyclesDone = 0)
    /\ [][pc = "invoke" /\ node = "quality_check" /\ step' = step + 1 =>
            state'.is_blog_ready \in {"Pass", "Fail"}]_vars

C12_Witness ==
    /\ pc = "invoke"
    /\ node = "content_generator"
    /\ CyclesDone = 1
    /\ state.is_blog_ready = "Fail"

\* a run in which every call was answered and no quality_check answer
\* has the pass token
NeverPassed ==
    /\ Answered = 1..Len(calls)
    /\ \A i \in 1..Len(EvalAnswers(calls)) : ~ContainsPassAnyCase(EvalAnswers(calls)[i])

\* C13 as stated: with no failing call and no passing answer the run goes
\* on for ever, it neither reaches END nor stops.
C13_NoBoundOnRetries ==
    NeverPassed => pc \in {"idle", "invoke"} /\ node # "END"

\* C13 amended: with no failing call and no passing answer the run never
\* reaches END and has one draft per content_generator call, and it goes on
\* until graph.invoke has done RecursionLimit supersteps: there it fails
\* with GraphRecursionError.
C13_RetriesUntilRecursionLimit ==
    /\ [](NeverPassed =>
            /\ node # "END" /\ pc # "done"
            /\ Len(state.blog_content) =
                 Cardinality({i \in 1..Len(calls) : calls[i].node = "content_generator"})
            /\ Len(state.blog_content) >= CyclesDone
            /\ Len(calls) <= RecursionLimit
            /\ pc = "failed" => error = "GraphRecursionError" /\ Len(calls) = RecursionLimit)
    /\ [][NeverPassed /\ pc = "invoke" /\ Len(calls) = RecursionLimit =>
            pc' = "failed" /\ error' = "GraphRecursionError"]_vars

C13_Witness ==
    /\ NeverPassed
    /\ pc = "failed"
    /\ error = "GraphRecursionError"
    /\ Len(state.blog_content) = 8
    /\ CyclesDone = 8

\* the contents of a list of messages
Contents(ms) == [i \in 1..Len(ms) |-> ms[i].content]

\* the texts a run's own answered calls put into blog_content
RECURSIVE OwnDrafts(_)
OwnDrafts(cs) ==
    IF cs = <<>> THEN <<>>
    ELSE (IF Head(cs).node = "content_generator" /\ ~Head(cs).answer.raised
          THEN <<Head(cs).answer.content>> ELSE <<>>) \o OwnDrafts(Tail(cs))

\* the texts a run's own answered calls put into reviewed_content
RECURSIVE OwnReviews(_)
OwnReviews(cs) ==
    IF cs = <<>> THEN <<>>
    ELSE (CASE Head(cs).answer.raised -> <<>>
            [] Head(cs).node = "content_reviewer" -> <<Head(cs).answer.content>>
            [] Head(cs).node = "quality_check" -> <<VerdictPrefix \o Head(cs).answer.content>>
            [] OTHER -> <<>>) \o OwnReviews(Tail(cs))

\* session s holds nothing but what its own current run produced
OwnStateOnly(s) ==
    /\ Contents(s.state.blog_content) = OwnDrafts(s.calls)
    /\ Contents(s.state.reviewed_content) = OwnReviews(s.calls)
    /\ s.state.is_blog_ready =
         (IF EvalAnswers(s.calls) = <<>> THEN ""
          ELSE IF ContainsPassAnyCase(Last(EvalAnswers(s.calls))) THEN "Pass" ELSE "Fail")
    /\ s.blog_state # None => s.state.topic = s.blog_state[1].topic
    /\ s.pc = "done" => s.blog_state = <<s.state>>

\* C14: a run starts from a BlogState that has the topic and nothing else,
\* whatever ran before in this session or runs in the other one; at every
\* moment each session's histories and verdict are exactly what the calls of
\* its own current run produced; a step of one session leaves the other
\* session as it is.
C14_RunsShareNothing ==
    /\ [](OwnStateOnly(ThisSession) /\ OwnStateOnly(other))
    /\ [][pc' = "invoke" /\ pc # "invoke" /\ other' = other =>
            /\ \E topic \in Topics :
                 /\ blog_state' = <<BlogState(topic)>>
                 /\ state' = BlogState(topic)
            /\ calls' = <<>>]_vars
    /\ [][other' = other \/ (other' = ThisSession /\ ThisSession' = other)]_vars

C14_Witness ==
    /\ pc = "invoke"
    /\ Len(state.blog_content) = 1
    /\ state.reviewed_content = <<>>
    /\ other.pc = "invoke"
    /\ Len(other.state.blog_content) = 2
    /\ other.state.topic # state.topic
    /\ other.blog_state # None

\* C15: every content_generator call of a run sends the prompt built from
\* the title alone, so the prompt of a retry is the prompt of the first
\* call, whatever the histories and the verdict have become.
C15_ContentPromptFromTitleOnly ==
    \A i \in 1..Len(calls) :
        calls[i].node = "content_generator" =>
            /\ calls[i].prompt = <<"content", state.title>>
            /\ calls[i].prompt = calls[2].prompt

C15_Witness ==
    /\ CyclesDone = 2
    /\ Len(calls) = 8
    /\ calls[8].node = "content_generator"
    /\ ~calls[8].answer.raised
    /\ state.blog_content[1].content # state.blog_content[2].content
    /\ state.is_blog_ready = "Fail"

\* the node of the i-th call of a run that follows the graph
NodeOfCall(i) ==
    IF i = 1 THEN "title_generator"
    ELSE CASE (i - 2) % 3 = 0 -> "content_generator"
           [] (i - 2) % 3 = 1 -> "content_reviewer"
           [] (i - 2) % 3 = 2 -> "quality_check"

\* C16: a superstep makes exactly one call, starting a run and returning
\* from it make none, and a run that has returned after N cycles has made
\* 1 + 3N calls: title, then content, review, evaluate N times.
C16_OneCallPerStep ==
    /\ [][pc = "invoke" /\ pc' = "invoke" /\ step' # step =>
            step' = step + 1 /\ Len(calls') = Len(calls) + 1 /\ SubSeq(calls', 1, Len(calls)) = calls]_vars
    /\ [][pc = "invoke" /\ pc' = "done" => calls' = calls]_vars
    /\ [][pc # "invoke" /\ pc' = "invoke" => calls' = <<>>]_vars
    /\ [](pc = "done" =>
            /\ Len(calls) = 1 + 3 * CyclesDone
            /\ Len(calls) = step
            /\ \A i \in 1..Len(calls) : calls[i].node = NodeOfCall(i))

C16_Witness ==
    /\ pc = "done"
    /\ CyclesDone = 3
    /\ Len(calls) = 10

\* C17: every blog_content entry is an AIMessage, and reviewed_content
\* alternates HumanMessage (the critique) and AIMessage (the verdict
\* summary): entry 2k-1 is the critique and entry 2k the summary of cycle k.
C17_EntryRoles ==
    /\ \A i \in 1..Len(state.blog_content) : state.blog_content[i].type = "ai"
    /\ \A i \in 1..Len(state.reviewed_content) :
         state.reviewed_content[i].type = (IF i % 2 = 1 THEN "human" ELSE "ai")
    /\ \A k \in 1..CyclesDone :
         /\ state.reviewed_content[2 * k - 1].type = "human"
         /\ state.reviewed_content[2 * k].type = "ai"
         /\ SubSeq(state.reviewed_content[2 * k].content, 1, Len(VerdictPrefix)) = VerdictPrefix

C17_Witness ==
    /\ CyclesDone = 2
    /\ Len(state.reviewed_content) = 5
    /\ state.reviewed_content[5].type = "human"

\* C18: a step of title_generator changes at most title, one of
\* content_generator only blog_content, one of content_reviewer only
\* reviewed_content, one of quality_check only is_blog_ready and
\* reviewed_content; topic stays what the run was started with.
C18_StepFrames ==
    /\ [][pc = "invoke" /\ pc' # "done" =>
            /\ state'.topic = state.topic
            /\ node # "title_generator" => state'.title = state.title
            /\ node # "content_generator" => state'.blog_content = state.blog_content
            /\ node \notin {"content_reviewer", "quality_check"} =>
                 state'.reviewed_content = state.reviewed_content
            /\ node # "quality_check" => state'.is_blog_ready = state.is_blog_ready]_vars
    /\ [](pc # "idle" => state.topic = blog_state[1].topic /\ state.topic \in Topics)

C18_Witness ==
    /\ pc = "invoke"
    /\ node = "content_reviewer"
    /\ CyclesDone = 1
    /\ Len(state.blog_content) = 2
    /\ Len(state.reviewed_content) = 2

\* the last call of the run is a quality_check whose answer has the pass token
JustPassed ==
    /\ calls # <<>>
    /\ Last(calls).node = "quality_check"
    /\ ~Last(calls).answer.raised
    /\ ContainsPassAnyCase(Last(calls).answer.content)

C20_ShownEntries ==
    pc = "done" =>
        /\ JustPassed
        /\ ShownReport = VerdictPrefix \o Last(calls).answer.content
        /\ Last(blog_state[1].reviewed_content).type = "ai"
        /\ ShownReport # calls[Len(calls) - 1].answer.content
        /\ calls[Len(calls) - 2].node = "content_generator"
        /\ ShownPost = calls[Len(calls) - 2].answer.content
        /\ ShownPost = Last(calls).prompt[2]

C20_Witness ==
    /\ pc = "done"
    /\ CyclesDone = 2
    /\ ShownPost = <<"d","2">>
    /\ blog_state[1].blog_content[1].content = <<"d","1">>
    /\ ShownReport = VerdictPrefix \o <<"P","A","S","S">>

====
